---- MODULE Spec2Model ----
(***************************************************************************)
(* Favourites reconciliation core of the movie library (MovieProvider in   *)
(* src/unnamed/part_004): the in-memory favourites list, the anonymous     *)
(* list in localStorage, the per-user remote collection, the sign-in       *)
(* migration and the remote subscription; with them the account page       *)
(* (src/src/Pages/Account.jsx), the home page (src/src/Pages/Home.jsx) and *)
(* the genre page (src/unnamed/part_003, src/src/Pages/GenrePage.jsx).     *)
(***************************************************************************)
EXTENDS Integers, Sequences, FiniteSets, Bags, TLC

\* ------------------------------------------------------------------ bounds
MaxSubs == 2      \* sign-in handlers plus subscriptions alive per page load
MaxPending == 1   \* snapshots a subscription holds undelivered
PopularPages == 3 \* total_pages of the popular listing
MaxLoops == 2     \* runs of the popular fetch alive at a time
MaxSearches == 1  \* search requests in flight
MaxRequests == 2  \* discover requests in flight

\* ------------------------------------------------------------------ values
Null == "null"
Users == {"u1", "u2"}
MovieIds == {1, 2}
Titles == {"X", "Y"}
\* A movie: the id and the rest of the value object (here its title).
Movies == [id : MovieIds, title : Titles]
\* getItem's null, and a document that does not exist.
NoItem == [none |-> TRUE]
Absent == [absent |-> TRUE]
\* No operation was issued on a document (bookkeeping of the claims).
NoOp == [noop |-> TRUE]

\* String(movie.id): the document key.
DocKey(id) == ToString(id)
Keys == {DocKey(i) : i \in MovieIds}
EmptyCollection == [k \in Keys |-> Absent]

\* JSON.stringify / JSON.parse of a list of plain movie objects.
Stringify(list) == [json |-> list]
Parse(item) == item.json

\* favourites.some(movie => movie.id === movieId)
isFavouriteIn(list, movieId) == \E i \in DOMAIN list : list[i].id = movieId

IdsOf(list) == {list[i].id : i \in DOMAIN list}

\* The ids whose documents exist in a collection.
IdsIn(coll) == {i \in MovieIds : coll[DocKey(i)] # Absent}

RECURSIVE DocsOf(_, _)
\* The documents of a collection under the given ids, in key order
\* (the keys "1".."9" sort as their ids do).
DocsOf(coll, ids) ==
  IF ids = {} THEN <<>>
  ELSE LET last == CHOOSE i \in ids : \A j \in ids : j <= i
           d == coll[DocKey(last)]
           rest == DocsOf(coll, ids \ {last})
       IN IF d = Absent THEN rest ELSE Append(rest, d)

\* snapshot.forEach(doc => firestoreFavs.push(doc.data()))
SnapshotDocs(coll) == DocsOf(coll, MovieIds)

\* ------------------------------------------------------------------ bags
One(r) == SetToBag({r})

RECURSIVE CopiesOf(_, _)
CopiesOf(rs, bag) ==
  IF rs = {} THEN 0
  ELSE LET r == CHOOSE x \in rs : TRUE
       IN CopiesIn(r, bag) + CopiesOf(rs \ {r}, bag)

\* The bag of F(r) for the r of a bag.
MapBag(F(_), bag) ==
  [x \in {F(r) : r \in BagToSet(bag)} |->
     CopiesOf({r \in BagToSet(bag) : F(r) = x}, bag)]

VARIABLES
  favourites,          \* useState([]): the in-memory list
  currentUser,         \* useState(null)
  isFavoritesLoading,  \* useState(true)
  showSignInPrompt,    \* useState(false)
  promptDismissed,     \* hasPromptBeenShownAndDismissedThisSession.current
  sessionFlag,         \* sessionStorage 'signInPromptDismissed' === 'true'
  localStorage,        \* localStorage 'favourites': NoItem or a JSON item
  remote,              \* users/{uid}/favorites: key -> document or Absent
  authUser,            \* the provider's signed-in user
  notified,            \* the auth listener has had its first notification
  handlers,            \* sign-in handlers suspended at an await, or rejected
  subs,                \* remote subscriptions that are open
  favSource,           \* where the in-memory list was last taken from
  showDeleteConfirm,   \* Account: useState(false), the confirmation modal
  authError,           \* Account: useState(''), the error shown
  feedbackMessage,     \* Account: useState(''), the feedback shown
  del,                 \* Account: confirmDeleteAction suspended at an await
  identities,          \* the users whose identity record exists
  home,                \* Home: the component's useState values
  fetches,             \* Home: runs of fetchPopularMoviesIncrementally suspended at an await
  searches,            \* Home: handleSearch calls suspended at searchMovies
  genre,               \* GenrePage: the component's useState values
  location,            \* the route parameter and the query string of the URL
  requests,            \* GenrePage: fetchMovies calls suspended at getMoviesByGenres
  genreContext,        \* GenreProvider: genresLoading and genresError
  build,               \* which of the two GenrePage files is mounted
  catalog,             \* the movies the pages offer
  accounts,            \* the users that can sign in
  audit                \* whether handlers record the operations issued meanwhile

vars == <<favourites, currentUser, isFavoritesLoading, showSignInPrompt,
          promptDismissed, sessionFlag, localStorage, remote, authUser,
          notified, handlers, subs, favSource, showDeleteConfirm, authError,
          feedbackMessage, del, identities, home, fetches, searches,
          genre, location, requests, genreContext, build,
          catalog, accounts, audit>>

uiVars == <<showSignInPrompt, promptDismissed, sessionFlag>>
envVars == <<catalog, accounts, audit>>
pageVars == <<showDeleteConfirm, authError, feedbackMessage, del>>
acctVars == <<showDeleteConfirm, authError, feedbackMessage, del, identities>>
homeVars == <<home, fetches, searches>>
genreVars == <<genre, location, requests, genreContext, build>>
browseVars == <<homeVars, genreVars>>

\* The messages of the account page.
NoMessage == ""
NoUserMessage == "No user is logged in to delete."
Deleting == "Deleting account..."
Deleted == "Your account has been successfully deleted. You have been logged out."
Cancelled == "Account deletion cancelled."
SignedOut == "You have been successfully signed out."
ReAuthenticate == "Please sign in again recently to delete your account."
GenericFailure == "Failed to delete account"

\* error.code of a rejected provider call.
RecentLoginCode == "auth/requires-recent-login"
ErrorCodes == {RecentLoginCode, "auth/network-request-failed"}

\* No confirmDeleteAction is in flight.
Idle == [pc |-> "idle", uid |-> Null, docs |-> {}]

\* ------------------------------------------------------------------ home page values
MOVIES_PER_PAGE_API == 20
MAX_POPULAR_MOVIES_TO_FETCH == 500
INITIAL_MOVIES_TO_DISPLAY == 34
MOVIES_TO_ADD_ON_LOAD_MORE == 21

Min(a, b) == IF a < b THEN a ELSE b

\* array.slice(0, end)
Slice(list, end) == SubSeq(list, 1, Min(end, Len(list)))

\* The popular listing of the catalog API, most popular first.
Popular == [i \in 1..(PopularPages * MOVIES_PER_PAGE_API) |-> i]

\* getPopularMovies(page): { results, page, total_pages }
getPopularMovies(page) ==
  [results |-> SubSeq(Popular, (page - 1) * MOVIES_PER_PAGE_API + 1,
                      Min(page * MOVIES_PER_PAGE_API, Len(Popular))),
   total_pages |-> PopularPages]

\* What the user can have typed into the search box.
Queries == {"", " ", "dune"}

\* searchQuery.trim()
Trim(q) == IF q = " " THEN "" ELSE q

\* searchMovies(query): the results, one popular movie and one that is not
\* in the popular listing.
searchMovies(query) == <<Len(Popular) + 1, 1>>

PopularFailed == "Failed to load popular movies. Please try again."
SearchFailed == "Failed to search movies."

\* The first statements of fetchPopularMoviesIncrementally, up to the first
\* await of getPopularMovies.
NewLoop == [pc |-> "page", currentPage |-> 1, totalPages |-> 1, fetchedMovies |-> <<>>]

\* The useState initial values, then the effect of the first render.
HomeMounted ==
  [searchQuery |-> "", allPopularMovies |-> <<>>, displayedMovies |-> <<>>,
   error |-> Null, loading |-> TRUE, isSearching |-> FALSE]

\* ------------------------------------------------------------------ genre page values
MAX_GENRE_MOVIES_TO_FETCH == 500

\* The two files that define GenrePage.
QueryBuild == "src/unnamed/part_003"
MergedBuild == "src/src/Pages/GenrePage.jsx"

\* The genres of the genre list, and the genres of each movie of the catalog.
Genres == {28, 35}
MovieGenres == <<{28}, {28, 35}, {28}, {35}, {28}>>

\* A query value is the sequence of its comma-separated pieces; a piece is a
\* number, the empty string or text that is no number.
Blank == -1
NaN == -2

\* Number(piece): Number("") is 0, Number of other text is NaN.
Number(piece) == IF piece = Blank THEN 0 ELSE piece

\* /genres, /genres/:id, ?ids=...: the route parameter (no element when the
\* route has none), whether the query has an ids key, and its value.
Locations ==
  { [param |-> p, hasIds |-> FALSE, ids |-> <<Blank>>] : p \in {<<>>, <<28>>} } \cup
  { [param |-> p, hasIds |-> TRUE, ids |-> q] :
      p \in {<<>>, <<28>>}, q \in {<<35>>, <<NaN>>} }
BaseLocation == [param |-> <<>>, hasIds |-> FALSE, ids |-> <<Blank>>]

RECURSIVE Ascending(_)
\* The numbers of a set in ascending order.
Ascending(set) ==
  IF set = {} THEN <<>>
  ELSE LET least == CHOOSE i \in set : \A j \in set : i <= j
       IN <<least>> \o Ascending(set \ {least})

\* Array.from(new Set(ids)).sort((a, b) => a - b)
uniqueSortedIds(ids) == Ascending({ids[i] : i \in DOMAIN ids})

\* searchParams.get("ids")?.split(",").map(Number)
idsFromQuery(loc) ==
  IF loc.hasIds THEN [i \in DOMAIN loc.ids |-> Number(loc.ids[i])] ELSE <<>>

\* paramGenreId ? [parseInt(paramGenreId, 10)] : []
idsFromParam(loc) == loc.param

\* part_003: the query if the ids key is present, else the parameter.
sourceIds(loc) ==
  IF loc.hasIds THEN SelectSeq(idsFromQuery(loc), LAMBDA n : n # NaN)
  ELSE idsFromParam(loc)

\* GenrePage.jsx: the parameter and the query together.
allIds(loc) ==
  SelectSeq(idsFromParam(loc) \o idsFromQuery(loc), LAMBDA n : n # NaN)

\* newIds.join(","): the empty list joins to the empty string.
Join(ids) == IF ids = <<>> THEN <<Blank>> ELSE ids

\* The movies that have every one of the genres, most popular first.
Matching(ids) ==
  SelectSeq([i \in DOMAIN MovieGenres |-> i],
            LAMBDA m : \A k \in DOMAIN ids : ids[k] \in MovieGenres[m])

GenrePageSize == 2
\* The popularity order can move between two requests.
Shifts == {0, 1}

\* getMoviesByGenres(ids, page), the listing having moved down by shift
\* since the first page was served: { results, total_pages }
getMoviesByGenres(ids, page, shift) ==
  LET list == Matching(ids)
      first == (page - 1) * GenrePageSize + 1 - (IF page > 1 THEN shift ELSE 0)
  IN [results |-> SubSeq(list, first, Min(first + GenrePageSize - 1, Len(list))),
      total_pages |-> (Len(list) + GenrePageSize - 1) \div GenrePageSize]

GenreFailed == "Failed to load movies for the selected genres. Please try again."
GenresFailed == "Failed to load genres."

\* The useState initial values of GenrePage.
GenreInitial ==
  [selectedGenreIds |-> <<>>, displayedMovies |-> <<>>, loading |-> TRUE,
   error |-> Null, currentPage |-> 1, totalPages |-> 1, hasMore |-> TRUE]

\* The URL-sync effect on [paramGenreId, searchParams].
SyncEffect(g, loc, b) ==
  [g EXCEPT !.selectedGenreIds =
              uniqueSortedIds(IF b = QueryBuild THEN sourceIds(loc) ELSE allIds(loc)),
            !.displayedMovies = <<>>, !.currentPage = 1, !.totalPages = 1,
            !.hasMore = TRUE, !.error = Null, !.loading = TRUE]

\* A call of getMoviesByGenres with what fetchMovies holds in its closure.
Request(g) ==
  [selectedGenreIds |-> g.selectedGenreIds, currentPage |-> g.currentPage,
   shown |-> Len(g.displayedMovies)]

\* One run of the fetch effect of part_003 over the values of a render: the
\* state it leaves and the requests it issues.
FetchEffectQuery(g, genresLoading) ==
  IF genresLoading THEN [g |-> [g EXCEPT !.loading = TRUE], reqs |-> <<>>]
  ELSE IF Len(g.selectedGenreIds) = 0
  THEN [g |-> [g EXCEPT !.displayedMovies = <<>>, !.hasMore = FALSE,
                        !.loading = FALSE, !.error = Null],
        reqs |-> <<>>]
  ELSE LET reset == [g EXCEPT !.currentPage = 1, !.hasMore = TRUE, !.error = Null]
       IN IF \/ g.currentPage > g.totalPages
             \/ Len(g.displayedMovies) >= MAX_GENRE_MOVIES_TO_FETCH
          THEN [g |-> [reset EXCEPT !.hasMore = FALSE, !.loading = FALSE],
                reqs |-> <<>>]
          ELSE [g |-> [reset EXCEPT !.loading = TRUE], reqs |-> <<Request(g)>>]

\* One run of the fetch effect of GenrePage.jsx.
FetchEffectMerged(g, genresLoading) ==
  IF genresLoading THEN [g |-> [g EXCEPT !.loading = TRUE], reqs |-> <<>>]
  ELSE IF Len(g.selectedGenreIds) = 0
  THEN [g |-> [g EXCEPT !.loading = FALSE, !.hasMore = FALSE], reqs |-> <<>>]
  ELSE IF \/ g.currentPage > g.totalPages
          \/ Len(g.displayedMovies) >= MAX_GENRE_MOVIES_TO_FETCH
  THEN [g |-> [g EXCEPT !.hasMore = FALSE, !.loading = FALSE], reqs |-> <<>>]
  ELSE [g |-> [g EXCEPT !.loading = TRUE, !.error = Null], reqs |-> <<Request(g)>>]

FetchEffect(g, genresLoading, b) ==
  IF b = QueryBuild THEN FetchEffectQuery(g, genresLoading)
  ELSE FetchEffectMerged(g, genresLoading)

\* The fetch effect on [selectedGenreIds, currentPage, genresLoading] after a
\* render that changed one of them, run again when it changed currentPage
\* itself.
RunFetchEffect(g, genresLoading, b) ==
  LET once == FetchEffect(g, genresLoading, b)
      twice == FetchEffect(once.g, genresLoading, b)
  IN IF once.g.currentPage # g.currentPage
     THEN [g |-> twice.g, reqs |-> once.reqs \o twice.reqs]
     ELSE once

\* The effects of the first render and of the render that follows, the genre
\* list still loading: the fetch effect only sets loading.
GenreMounted(loc, b) == RunFetchEffect(SyncEffect(GenreInitial, loc, b), TRUE, b).g

GenreMountedAt(loc, b) ==
  /\ location = loc
  /\ build = b
  /\ genre = GenreMounted(loc, b)
  /\ requests = EmptyBag
  /\ genreContext = [genresLoading |-> TRUE, genresError |-> Null]

\* ------------------------------------------------------------------ init
InitState(dismissed) ==
  /\ favourites = <<>>
  /\ currentUser = Null
  /\ isFavoritesLoading = TRUE
  /\ showSignInPrompt = FALSE
  /\ sessionFlag = dismissed
  /\ promptDismissed = sessionFlag
  /\ localStorage = NoItem
  /\ remote = [u \in Users |-> EmptyCollection]
  /\ authUser = Null
  /\ notified = FALSE
  /\ handlers = EmptyBag
  /\ subs = EmptyBag
  /\ favSource = "init"
  /\ showDeleteConfirm = FALSE
  /\ authError = NoMessage
  /\ feedbackMessage = NoMessage
  /\ del = Idle
  /\ identities = Users
  /\ home = HomeMounted
  /\ fetches = One(NewLoop)
  /\ searches = EmptyBag

\* One account, every movie with one value, the prompt dismissed earlier in
\* the browser session.
Init ==
  /\ InitState(TRUE)
  /\ GenreMountedAt(BaseLocation, QueryBuild)
  /\ catalog = [id : MovieIds, title : {"X"}]
  /\ accounts = {"u1"}
  /\ audit = FALSE

\* One account and one movie.
InitOne ==
  /\ InitState(TRUE)
  /\ GenreMountedAt(BaseLocation, QueryBuild)
  /\ catalog = [id : {1}, title : {"X"}]
  /\ accounts = {"u1"}
  /\ audit = FALSE

\* One account and one movie, the prompt not dismissed in the browser session.
InitPrompt ==
  /\ InitState(FALSE)
  /\ GenreMountedAt(BaseLocation, QueryBuild)
  /\ catalog = [id : {1}, title : {"X"}]
  /\ accounts = {"u1"}
  /\ audit = FALSE

\* Two accounts and one movie.
InitUsers ==
  /\ InitState(TRUE)
  /\ GenreMountedAt(BaseLocation, QueryBuild)
  /\ catalog = [id : {1}, title : {"X"}]
  /\ accounts = Users
  /\ audit = FALSE

\* One movie in two values, and the operations issued during a migration
\* recorded.
InitOps ==
  /\ InitState(TRUE)
  /\ GenreMountedAt(BaseLocation, QueryBuild)
  /\ catalog = [id : {1}, title : Titles]
  /\ accounts = {"u1"}
  /\ audit = TRUE

\* ------------------------------------------------------ remote collection
\* setDoc(favDocRef, movie) / batch.set(favDocRef, movie)
SetDoc(coll, movie) == [coll EXCEPT ![DocKey(movie.id)] = movie]

\* deleteDoc(favDocRef)
DeleteDoc(coll, movieId) == [coll EXCEPT ![DocKey(movieId)] = Absent]

\* docSnap.exists()
DocExists(coll, movieId) == coll[DocKey(movieId)] # Absent

RECURSIVE ApplyBatch(_, _)
\* batch.commit(): every batch.set, atomically
ApplyBatch(coll, batch) ==
  IF batch = <<>> THEN coll
  ELSE ApplyBatch(SetDoc(coll, Head(batch)), Tail(batch))

\* Every open subscription on uid receives the collection's new contents.
Notify(ss, uid, coll) ==
  LET F(s) == IF s.uid = uid
                THEN [s EXCEPT !.queue = Append(@, SnapshotDocs(coll))]
                ELSE s
  IN MapBag(F, ss)

\* Room for one more snapshot in every subscription on uid.
HasRoom(uid) ==
  \A s \in BagToSet(subs) : s.uid = uid => Len(s.queue) < MaxPending

\* A write of the collection of uid: the new contents and the snapshots.
WriteRemote(uid, coll) ==
  IF coll = remote[uid]
    THEN UNCHANGED <<remote, subs>>
    ELSE /\ HasRoom(uid)
         /\ remote' = [remote EXCEPT ![uid] = coll]
         /\ subs' = Notify(subs, uid, coll)

\* onSnapshot(userFavoritesCollectionRef, ...): open, first snapshot pending
Subscribe(ss, uid) ==
  ss (+) One([uid |-> uid, queue |-> <<SnapshotDocs(remote[uid])>>, first |-> TRUE])

\* ------------------------------------------------------ handler bookkeeping
InFlight(h) == h.pc # "rejected"

\* An operation by someone else while a handler is in flight.
Disturb(hs) ==
  LET F(h) == IF InFlight(h) THEN [h EXCEPT !.clean = FALSE, !.r0 = {}] ELSE h
  IN MapBag(F, hs)

\* A remote add or remove by the user while a handler on uid is in flight:
\* doc is what the operation leaves under the id.
DisturbRemote(hs, uid, id, doc) ==
  LET F(h) == IF InFlight(h) /\ h.uid = uid
                THEN [h EXCEPT !.clean = FALSE, !.r0 = {},
                               !.expect[id] = IF audit THEN doc ELSE NoOp]
                ELSE h
  IN MapBag(F, hs)

\* ------------------------------------------------------ auth listener
\* if (localFavsJSON) { localFavs = JSON.parse(..); if (localFavs.length > 0)
NeedsMigration(item) == item # NoItem /\ Len(Parse(item)) > 0

\* The anonymous branch: load the list from localStorage.
LoadLocal(item) == IF item # NoItem THEN Parse(item) ELSE <<>>

\* The handler as it suspends at its first getDoc.
NewHandler(user, item) ==
  [uid |-> user, localFavs |-> Parse(item), i |-> 1, batch |-> <<>>,
   pc |-> "getDoc", r0 |-> IdsIn(remote[user]), clean |-> TRUE,
   expect |-> [id \in MovieIds |-> NoOp]]

\* Variant: an auth-state change leaves the prompt as it is.
PromptKeptOnAuthChange(shown) == shown

\* setShowSignInPrompt(false) at the start of the handler.
PromptAfterAuthChange(shown) == FALSE

\* The handler up to its first await (or to its end when it has none).
AuthHandler(user) ==
  /\ currentUser' = user
  /\ showSignInPrompt' = PromptAfterAuthChange(showSignInPrompt)
  /\ UNCHANGED <<promptDismissed, sessionFlag, localStorage, remote, envVars, browseVars>>
  /\ IF user # Null
       THEN /\ isFavoritesLoading' = TRUE
            /\ UNCHANGED <<favourites, favSource>>
            /\ IF NeedsMigration(localStorage)
                 THEN /\ handlers' = handlers (+) One(NewHandler(user, localStorage))
                      /\ UNCHANGED subs
                 ELSE /\ subs' = Subscribe(subs, user)
                      /\ UNCHANGED handlers
       ELSE /\ favourites' = LoadLocal(localStorage)
            /\ favSource' = "local"
            /\ isFavoritesLoading' = FALSE
            /\ UNCHANGED <<handlers, subs>>

\* The first notification after the page has loaded.
InitialNotify ==
  /\ ~notified
  /\ notified' = TRUE
  /\ UNCHANGED authUser
  /\ AuthHandler(authUser)

SignIn(u) ==
  /\ notified
  /\ authUser = Null
  /\ u \in identities
  /\ BagCardinality(handlers) + BagCardinality(subs) < MaxSubs
  /\ authUser' = u
  /\ UNCHANGED notified
  /\ AuthHandler(u)

SignOut ==
  /\ notified
  /\ authUser # Null
  /\ authUser' = Null
  /\ UNCHANGED notified
  /\ AuthHandler(Null)

\* ------------------------------------------------------ migration
\* Variant: the loop sets the documents that exist instead of the absent ones.
BatchOfExisting(batch, exists, movie) ==
  IF exists THEN Append(batch, movie) ELSE batch

\* One turn of the loop: getDoc answers, batch.set when the document is absent.
BatchAfterGetDoc(batch, exists, movie) ==
  IF ~exists THEN Append(batch, movie) ELSE batch

GetDocStep(h) ==
  /\ h.pc = "getDoc"
  /\ LET movie == h.localFavs[h.i]
         exists == DocExists(remote[h.uid], movie.id)
     IN handlers' = (handlers (-) One(h)) (+) One(
          [h EXCEPT !.batch = BatchAfterGetDoc(h.batch, exists, movie),
                    !.i = h.i + 1,
                    !.pc = IF h.i + 1 > Len(h.localFavs) THEN "commit" ELSE "getDoc"])
  /\ UNCHANGED <<favourites, currentUser, isFavoritesLoading, uiVars, envVars, browseVars,
                 localStorage, remote, authUser, notified, subs, favSource>>

\* await batch.commit() takes effect in the remote store.
CommitStep(h) ==
  /\ h.pc = "commit"
  /\ WriteRemote(h.uid, ApplyBatch(remote[h.uid], h.batch))
  /\ handlers' = Disturb(handlers (-) One(h)) (+) One([h EXCEPT !.pc = "clear", !.batch = <<>>])
  /\ UNCHANGED <<favourites, currentUser, isFavoritesLoading, uiVars, envVars, browseVars,
                 localStorage, authUser, notified, favSource>>

\* Variant: the handler ends without removing the item.
LocalKeptAfterMigration(item) == item

\* localStorage.removeItem("favourites")
LocalAfterMigration(item) == NoItem

\* After the commit: clear localStorage, open the subscription.
FinishMigration(h) ==
  /\ h.pc = "clear"
  /\ localStorage' = LocalAfterMigration(localStorage)
  /\ subs' = Subscribe(subs, h.uid)
  /\ handlers' = Disturb(handlers (-) One(h))
  /\ UNCHANGED <<favourites, currentUser, isFavoritesLoading, uiVars, envVars, browseVars,
                 remote, authUser, notified, favSource>>

\* Variant: the item is removed before the batch is known to be committed.
LocalClearedOnFailure(item) == NoItem

\* What a handler that ended in a rejection leaves in localStorage.
LocalAfterFailure(item) == item

\* The rejected promise of a handler: nothing awaits or catches it (i: the
\* item whose existence check rejected, past the last when the commit did).
Rejected(h) ==
  [uid |-> h.uid, localFavs |-> <<>>, i |-> h.i, batch |-> <<>>, pc |-> "rejected",
   r0 |-> {}, clean |-> TRUE, expect |-> [id \in MovieIds |-> NoOp]]

\* Variant: every batch.set is a write of its own, done as the loop goes.
RemoteWrittenPerItem(coll, batch) == ApplyBatch(coll, batch)

\* The collection after a rejection: the sets of the batch were only queued
\* (batch.set, line 96) and a commit that rejects applies none of them.
RemoteAfterFailure(coll, batch) == coll

\* getDoc or batch.commit rejects: the handler ends there.
MigrationFail(h) ==
  /\ h.pc \in {"getDoc", "commit"}
  /\ handlers' = (handlers (-) One(h)) (+) One(Rejected(h))
  /\ localStorage' = LocalAfterFailure(localStorage)
  /\ remote' = [remote EXCEPT ![h.uid] = RemoteAfterFailure(@, h.batch)]
  /\ UNCHANGED <<favourites, currentUser, isFavoritesLoading, uiVars, envVars, browseVars,
                 authUser, notified, subs, favSource>>

\* ------------------------------------------------------ subscription
\* Variant: the snapshot's documents are merged into the list that is there.
ListMergedWithSnapshot(prev, docs) ==
  prev \o SelectSeq(docs, LAMBDA d : ~isFavouriteIn(prev, d.id))

\* setFavourites(firestoreFavs)
ListAfterSnapshot(prev, docs) == docs

\* The snapshot callback: the list becomes the snapshot's documents.
DeliverSnapshot(s) ==
  /\ s.queue # <<>>
  /\ favourites' = ListAfterSnapshot(favourites, Head(s.queue))
  /\ favSource' = s.uid
  /\ isFavoritesLoading' = FALSE
  /\ subs' = (subs (-) One(s)) (+) One([s EXCEPT !.queue = Tail(@), !.first = FALSE])
  /\ UNCHANGED <<currentUser, uiVars, envVars, browseVars, localStorage, remote, authUser,
                 notified, handlers>>

\* The error callback: the list is emptied; the store has closed the listener.
ListenError(s) ==
  /\ favourites' = <<>>
  /\ favSource' = "error"
  /\ isFavoritesLoading' = FALSE
  /\ subs' = subs (-) One(s)
  /\ UNCHANGED <<currentUser, uiVars, envVars, browseVars, localStorage, remote, authUser,
                 notified, handlers>>

\* ------------------------------------------------------ add / remove
\* Variant: the updater appends without looking for the id.
AnonAddAlways(prev, movie) == Append(prev, movie)

\* The updater of the anonymous add: [...prev, movie] unless the id is there.
AnonAddList(prev, movie) ==
  IF ~isFavouriteIn(prev, movie.id) THEN Append(prev, movie) ELSE prev

\* localStorage after the anonymous add: written only when the movie is new.
AnonAddLocal(prev, item, movie) ==
  IF ~isFavouriteIn(prev, movie.id) THEN Stringify(Append(prev, movie)) ELSE item

\* Variant: the add does not look at the dismissed flag.
AnonAddPromptUnlessThere(prev, shown, dismissed, movie) ==
  IF ~isFavouriteIn(prev, movie.id) THEN TRUE ELSE shown

\* Variant: the add never asks for the prompt.
AnonAddPromptNever(prev, shown, dismissed, movie) == shown

\* The prompt after the anonymous add.
AnonAddPrompt(prev, shown, dismissed, movie) ==
  IF ~isFavouriteIn(prev, movie.id) /\ ~dismissed THEN TRUE ELSE shown

\* prev.filter(movie => movie.id !== movieId)
AnonRemoveList(prev, movieId) == SelectSeq(prev, LAMBDA m : m.id # movieId)

\* localStorage.setItem('favourites', JSON.stringify(newFavs))
AnonRemoveLocal(prev, item, movieId) == Stringify(AnonRemoveList(prev, movieId))

\* The remote branch of add and of remove, when the write succeeds.
RemoteWrite(uid, id, coll) ==
  /\ WriteRemote(uid, coll)
  /\ handlers' = DisturbRemote(handlers, uid, id, coll[DocKey(id)])

\* Variant: the remote branch also puts the movie in the list at once.
ListWithOptimisticAdd(prev, movie) == AnonAddList(prev, movie)

\* The in-memory list after the remote branch of add: no setFavourites there.
ListAfterRemoteAdd(prev, movie) == prev

addToFavourites(movie) ==
  /\ IF currentUser # Null
       THEN /\ \/ RemoteWrite(currentUser, movie.id, SetDoc(remote[currentUser], movie))
               \/ UNCHANGED <<remote, subs, handlers>>     \* setDoc rejects: caught
            /\ favourites' = ListAfterRemoteAdd(favourites, movie)
            /\ UNCHANGED <<localStorage, showSignInPrompt>>
       ELSE /\ favourites' = AnonAddList(favourites, movie)
            /\ localStorage' = AnonAddLocal(favourites, localStorage, movie)
            /\ showSignInPrompt' =
                 AnonAddPrompt(favourites, showSignInPrompt, promptDismissed, movie)
            /\ handlers' = Disturb(handlers)
            /\ UNCHANGED <<remote, subs>>
  /\ UNCHANGED <<currentUser, isFavoritesLoading, promptDismissed, sessionFlag,
                 authUser, notified, favSource, envVars, browseVars>>

removeFromFavourites(movieId) ==
  /\ IF currentUser # Null
       THEN /\ \/ RemoteWrite(currentUser, movieId, DeleteDoc(remote[currentUser], movieId))
               \/ UNCHANGED <<remote, subs, handlers>>     \* deleteDoc rejects: caught
            /\ UNCHANGED <<favourites, localStorage>>
       ELSE /\ favourites' = AnonRemoveList(favourites, movieId)
            /\ localStorage' = AnonRemoveLocal(favourites, localStorage, movieId)
            /\ handlers' = Disturb(handlers)
            /\ UNCHANGED <<remote, subs>>
  /\ UNCHANGED <<currentUser, isFavoritesLoading, uiVars, authUser, notified,
                 favSource, envVars, browseVars>>

dismissSignInPromptForSession ==
  /\ showSignInPrompt' = FALSE
  /\ promptDismissed' = TRUE
  /\ sessionFlag' = TRUE
  /\ UNCHANGED <<favourites, currentUser, isFavoritesLoading, localStorage,
                 remote, authUser, notified, handlers, subs, favSource, envVars, browseVars>>

\* ------------------------------------------------------ page reload
\* The page is loaded again: component state starts over, storage stays.
Reload ==
  /\ favourites' = <<>>
  /\ favSource' = "init"
  /\ currentUser' = Null
  /\ isFavoritesLoading' = TRUE
  /\ showSignInPrompt' = FALSE
  /\ promptDismissed' = sessionFlag
  /\ notified' = FALSE
  /\ handlers' = EmptyBag
  /\ subs' = EmptyBag
  /\ showDeleteConfirm' = FALSE
  /\ authError' = NoMessage
  /\ feedbackMessage' = NoMessage
  /\ del' = Idle
  /\ home' = HomeMounted
  /\ fetches' = One(NewLoop)
  /\ searches' = EmptyBag
  /\ genre' = GenreMounted(location, build)
  /\ requests' = EmptyBag
  /\ genreContext' = [genresLoading |-> TRUE, genresError |-> Null]
  /\ UNCHANGED <<sessionFlag, localStorage, remote, authUser, identities,
                 location, build, envVars>>

\* ------------------------------------------------------ account page
coreVars == <<favourites, currentUser, isFavoritesLoading, uiVars, localStorage,
              remote, authUser, notified, handlers, subs, favSource>>

\* handleEmailSignIn / handleGoogleSignIn, the provider accepting.
handleSignIn(u) ==
  /\ SignIn(u)
  /\ authError' = NoMessage
  /\ feedbackMessage' = NoMessage
  /\ UNCHANGED <<showDeleteConfirm, del, identities>>

handleSignOut ==
  /\ SignOut
  /\ authError' = NoMessage
  /\ feedbackMessage' = SignedOut
  /\ UNCHANGED <<showDeleteConfirm, del, identities>>

handleDeleteAccount ==
  /\ IF currentUser = Null
       THEN /\ authError' = NoUserMessage
            /\ UNCHANGED showDeleteConfirm
       ELSE /\ showDeleteConfirm' = TRUE
            /\ UNCHANGED authError
  /\ UNCHANGED <<feedbackMessage, del, identities, coreVars, envVars, browseVars>>

\* The modal's Cancel button.
cancelDeleteAction ==
  /\ showDeleteConfirm
  /\ showDeleteConfirm' = FALSE
  /\ feedbackMessage' = Cancelled
  /\ authError' = NoMessage
  /\ UNCHANGED <<del, identities, coreVars, envVars, browseVars>>

\* Variant: every rejection gets the generic message.
AlwaysGeneric(code) == GenericFailure

\* The catch of confirmDeleteAction: the message for error.code.
DeleteErrorMessage(code) ==
  IF code = RecentLoginCode THEN ReAuthenticate ELSE GenericFailure

\* The modal's confirm button, up to await getDocs(q). Reading
\* currentUser.uid of no user throws inside the try and is caught.
\* One confirmDeleteAction is in flight at a time.
confirmDeleteAction ==
  /\ showDeleteConfirm
  /\ del = Idle
  /\ showDeleteConfirm' = FALSE
  /\ IF currentUser = Null
       THEN /\ authError' = GenericFailure
            /\ feedbackMessage' = NoMessage
            /\ UNCHANGED del
       ELSE /\ authError' = NoMessage
            /\ feedbackMessage' = Deleting
            /\ del' = [pc |-> "getDocs", uid |-> currentUser, docs |-> {}]
  /\ UNCHANGED <<identities, coreVars, envVars, browseVars>>

\* getDocs answers: batch.delete of every document of the snapshot.
GetDocsStep ==
  /\ del.pc = "getDocs"
  /\ del' = [del EXCEPT !.pc = "commit", !.docs = IdsIn(remote[del.uid])]
  /\ UNCHANGED <<showDeleteConfirm, authError, feedbackMessage, identities,
                 coreVars, envVars, browseVars>>

RECURSIVE DeleteAll(_, _)
\* The batch of deletes, applied.
DeleteAll(coll, ids) ==
  IF ids = {} THEN coll
  ELSE LET id == CHOOSE x \in ids : TRUE
       IN DeleteAll(DeleteDoc(coll, id), ids \ {id})

\* Variant: the batch misses the document with the greatest key.
DeleteAllButLast(coll, ids) ==
  IF ids = {} THEN coll
  ELSE DeleteAll(coll, ids \ {CHOOSE x \in ids : \A y \in ids : y <= x})

\* Variant: the deletes are held back until the identity is deleted.
DeleteNothing(coll, ids) == coll

\* What the commit of the delete batch leaves of the collection.
CollectionAfterDelete(coll, ids) == DeleteAll(coll, ids)

\* await batch.commit() of the deletes takes effect.
DeleteCommitStep ==
  /\ del.pc = "commit"
  /\ WriteRemote(del.uid, CollectionAfterDelete(remote[del.uid], del.docs))
  /\ handlers' = Disturb(handlers)
  /\ del' = [del EXCEPT !.pc = "deleteUser", !.docs = {}]
  /\ UNCHANGED <<favourites, currentUser, isFavoritesLoading, uiVars, localStorage,
                 authUser, notified, favSource, showDeleteConfirm, authError,
                 feedbackMessage, identities, envVars, browseVars>>

\* getDocs or batch.commit rejects: caught, deleteUser is not reached.
DeleteDataFail ==
  /\ del.pc \in {"getDocs", "commit"}
  /\ del' = Idle
  /\ authError' = GenericFailure
  /\ feedbackMessage' = NoMessage
  /\ UNCHANGED <<showDeleteConfirm, identities, coreVars, envVars, browseVars>>

\* await deleteUser(currentUser) succeeds: the identity record is gone and,
\* when that user is the one signed in, the auth listener is told null.
DeleteUserStep ==
  /\ del.pc = "deleteUser"
  /\ identities' = identities \ {del.uid}
  /\ del' = Idle
  /\ feedbackMessage' = Deleted
  /\ UNCHANGED <<showDeleteConfirm, authError, notified>>
  /\ IF authUser = del.uid /\ notified
       THEN authUser' = Null /\ AuthHandler(Null)
       ELSE /\ authUser' = IF authUser = del.uid THEN Null ELSE authUser
            /\ UNCHANGED <<favourites, currentUser, isFavoritesLoading, uiVars,
                           localStorage, remote, handlers, subs, favSource, envVars, browseVars>>

\* await deleteUser(currentUser) rejects with error.code = code.
DeleteUserReject(code) ==
  /\ del.pc = "deleteUser"
  /\ del' = Idle
  /\ authError' = DeleteErrorMessage(code)
  /\ feedbackMessage' = NoMessage
  /\ UNCHANGED <<showDeleteConfirm, identities, coreVars, envVars, browseVars>>

\* ------------------------------------------------------ home page
homeRest == <<coreVars, acctVars, genreVars, envVars>>

\* onChange of the search box: setSearchQuery(e.target.value)
TypeQuery(q) ==
  /\ q # home.searchQuery
  /\ home' = [home EXCEPT !.searchQuery = q]
  /\ UNCHANGED <<fetches, searches, homeRest>>

\* The effect on [isSearching] when the render after a state change finds the
\* flag changed to false: a new run of fetchPopularMoviesIncrementally, up to
\* its first await.
PopularEffect(before, after) ==
  IF before.isSearching /\ ~after.isSearching
  THEN /\ BagCardinality(fetches) < MaxLoops
       /\ home' = [after EXCEPT !.loading = TRUE, !.error = Null,
                                !.isSearching = FALSE]
       /\ fetches' = fetches (+) One(NewLoop)
  ELSE /\ home' = after
       /\ UNCHANGED fetches

\* handleSearch, up to its return or its await of searchMovies; the render
\* that follows runs the effect on [isSearching].
handleSearch ==
  LET trimmedQuery == Trim(home.searchQuery) IN
  IF trimmedQuery = ""
  THEN /\ PopularEffect(home, [home EXCEPT !.isSearching = FALSE,
                                           !.searchQuery = ""])
       /\ home' # home
       /\ UNCHANGED <<searches, homeRest>>
  ELSE /\ ~home.loading
       /\ BagCardinality(searches) < MaxSearches
       /\ home' = [home EXCEPT !.loading = TRUE, !.error = Null,
                               !.isSearching = TRUE]
       /\ searches' = searches (+) One([query |-> trimmedQuery])
       /\ UNCHANGED <<fetches, homeRest>>

\* searchMovies resolves: the rest of the try block, then finally.
SearchResponse(s) ==
  /\ BagIn(s, searches)
  /\ searches' = searches (-) One(s)
  /\ home' = [home EXCEPT
                !.displayedMovies = searchMovies(s.query),
                !.loading = FALSE]
  /\ UNCHANGED <<fetches, homeRest>>

\* searchMovies rejects: catch, then finally.
SearchFail(s) ==
  /\ BagIn(s, searches)
  /\ searches' = searches (-) One(s)
  /\ home' = [home EXCEPT !.error = SearchFailed, !.loading = FALSE]
  /\ UNCHANGED <<fetches, homeRest>>

\* getPopularMovies resolves in a run of the loop: the body of the loop up
\* to the await of the 100 ms timer.
PopularResponse(f) ==
  /\ BagIn(f, fetches)
  /\ f.pc = "page"
  /\ LET response == getPopularMovies(f.currentPage)
         fetchedMovies == f.fetchedMovies \o response.results
         g == [f EXCEPT !.pc = "timer", !.fetchedMovies = fetchedMovies,
                        !.totalPages = response.total_pages,
                        !.currentPage = f.currentPage + 1]
     IN /\ fetches' = (fetches (-) One(f)) (+) One(g)
        /\ home' = IF f.currentPage = 1
                   THEN [home EXCEPT
                           !.allPopularMovies = fetchedMovies,
                           !.displayedMovies = Slice(fetchedMovies, INITIAL_MOVIES_TO_DISPLAY),
                           !.loading = FALSE]
                   ELSE [home EXCEPT !.allPopularMovies = fetchedMovies]
  /\ UNCHANGED <<searches, homeRest>>

\* The timer fires: the loop condition, then the next request or the final
\* cleanup.
PopularTimer(f) ==
  /\ BagIn(f, fetches)
  /\ f.pc = "timer"
  /\ IF /\ Len(f.fetchedMovies) < MAX_POPULAR_MOVIES_TO_FETCH
        /\ f.currentPage <= f.totalPages
     THEN /\ fetches' = (fetches (-) One(f)) (+) One([f EXCEPT !.pc = "page"])
          /\ UNCHANGED home
     ELSE /\ fetches' = fetches (-) One(f)
          /\ home' = [home EXCEPT !.allPopularMovies =
                                    Slice(@, MAX_POPULAR_MOVIES_TO_FETCH)]
  /\ UNCHANGED <<searches, homeRest>>

\* getPopularMovies rejects in a run of the loop: the catch block.
PopularFail(f) ==
  /\ BagIn(f, fetches)
  /\ f.pc = "page"
  /\ fetches' = fetches (-) One(f)
  /\ home' = [home EXCEPT !.error = PopularFailed, !.loading = FALSE]
  /\ UNCHANGED <<searches, homeRest>>

\* The Load More button is rendered.
shouldShowLoadMore ==
  /\ ~home.loading
  /\ ~home.isSearching
  /\ Len(home.displayedMovies) < Len(home.allPopularMovies)

\* handleLoadMore, clicked on the rendered button.
handleLoadMore ==
  /\ shouldShowLoadMore
  /\ ~home.loading
  /\ LET nextEndIndex == Len(home.displayedMovies) + MOVIES_TO_ADD_ON_LOAD_MORE
         nextBatch == Slice(home.allPopularMovies, nextEndIndex)
     IN home' = [home EXCEPT !.displayedMovies = nextBatch]
  /\ UNCHANGED <<fetches, searches, homeRest>>

\* ------------------------------------------------------ genre page
genreRest == <<coreVars, acctVars, homeVars, envVars>>

\* The requests of an effect run join the ones in flight.
Issue(bag, reqs) ==
  IF Len(reqs) = 0 THEN bag
  ELSE IF Len(reqs) = 1 THEN bag (+) One(reqs[1])
  ELSE bag (+) One(reqs[1]) (+) One(reqs[2])

\* A render after a state change, with the effects it runs.
Rendered(r) ==
  /\ BagCardinality(requests) + Len(r.reqs) <= MaxRequests
  /\ genre' = r.g
  /\ requests' = Issue(requests, r.reqs)

\* getMovieGenres resolves in GenreProvider.
GenresLoaded ==
  /\ genreContext.genresLoading
  /\ genreContext' = [genreContext EXCEPT !.genresLoading = FALSE]
  /\ Rendered(RunFetchEffect(genre, FALSE, build))
  /\ UNCHANGED <<location, build, genreRest>>

\* getMovieGenres rejects in GenreProvider.
GenresFail ==
  /\ genreContext.genresLoading
  /\ genreContext' = [genresLoading |-> FALSE, genresError |-> GenresFailed]
  /\ Rendered(RunFetchEffect(genre, FALSE, build))
  /\ UNCHANGED <<location, build, genreRest>>

\* The genre buttons and the genre links are rendered.
GenresShown == ~genreContext.genresLoading /\ genreContext.genresError = Null

\* The URL changes under the mounted page: the URL-sync effect, then the
\* fetch effect of the render that follows.
Navigated(loc) ==
  /\ loc # location
  /\ location' = loc
  /\ Rendered(RunFetchEffect(SyncEffect(genre, loc, build),
                             genreContext.genresLoading, build))
  /\ UNCHANGED <<genreContext, build, genreRest>>

\* A genre link of the navigation bar: <Link to={`/genres/${genre.id}`}>
OpenGenre(genreId) ==
  /\ GenresShown
  /\ Navigated([param |-> <<genreId>>, hasIds |-> FALSE, ids |-> <<Blank>>])

\* Array.from(currentIds) after the delete or the add.
newIds(selected, genreId) ==
  IF \E i \in DOMAIN selected : selected[i] = genreId
  THEN SelectSeq(selected, LAMBDA n : n # genreId)
  ELSE Append(selected, genreId)

\* Where handleGenreToggle sends the browser.
ToggleLocation(loc, ids, b) ==
  IF b = QueryBuild
  THEN [param |-> <<>>, hasIds |-> TRUE, ids |-> Join(ids)]
  ELSE IF Len(ids) > 0
  THEN [loc EXCEPT !.hasIds = TRUE, !.ids = Join(ids)]
  ELSE [loc EXCEPT !.hasIds = FALSE, !.ids = <<Blank>>]

\* handleGenreToggle, clicked on a rendered genre button.
handleGenreToggle(genreId) ==
  /\ GenresShown
  /\ Navigated(ToggleLocation(location, newIds(genre.selectedGenreIds, genreId),
                              build))

\* The Load More button of the genre page is rendered.
showLoadMoreButton ==
  genre.hasMore /\ ~genre.loading /\ Len(genre.displayedMovies) > 0

\* handleLoadMore of the genre page, then the fetch effect of the render that
\* follows.
handleLoadMoreGenre ==
  /\ showLoadMoreButton
  /\ ~genre.loading /\ genre.hasMore
  /\ Rendered(RunFetchEffect([genre EXCEPT !.currentPage = @ + 1],
                             genreContext.genresLoading, build))
  /\ UNCHANGED <<location, genreContext, build, genreRest>>

\* newMovies.filter(m => !existingIds.has(m.id))
filteredNewMovies(prevMovies, newMovies) ==
  SelectSeq(newMovies,
            LAMBDA m : \A i \in DOMAIN prevMovies : prevMovies[i] # m)

\* The updater passed to setDisplayedMovies.
DisplayedAfterResponse(prevMovies, newMovies, b) ==
  IF b = QueryBuild
  THEN Slice(filteredNewMovies(prevMovies, newMovies), MAX_GENRE_MOVIES_TO_FETCH)
  ELSE Slice(prevMovies \o filteredNewMovies(prevMovies, newMovies),
             MAX_GENRE_MOVIES_TO_FETCH)

\* response.total_pages || 1 (part_003), response.total_pages (GenrePage.jsx)
TotalPagesOf(response, b) ==
  IF b = QueryBuild /\ response.total_pages = 0 THEN 1 ELSE response.total_pages

\* getMoviesByGenres resolves: the rest of the try block, then finally.
DiscoverResponse(r, shift) ==
  /\ BagIn(r, requests)
  /\ requests' = requests (-) One(r)
  /\ LET response == getMoviesByGenres(r.selectedGenreIds, r.currentPage, shift)
         newMovies == response.results
         moreAvailableFromApi == r.currentPage < TotalPagesOf(response, build)
         underHardCap == r.shown + Len(newMovies) < MAX_GENRE_MOVIES_TO_FETCH
     IN genre' = [genre EXCEPT
                    !.displayedMovies = DisplayedAfterResponse(@, newMovies, build),
                    !.totalPages = TotalPagesOf(response, build),
                    !.hasMore = moreAvailableFromApi /\ underHardCap,
                    !.loading = FALSE]
  /\ UNCHANGED <<location, genreContext, build, genreRest>>

\* getMoviesByGenres rejects: catch, then finally.
DiscoverFail(r) ==
  /\ BagIn(r, requests)
  /\ requests' = requests (-) One(r)
  /\ genre' = [genre EXCEPT !.error = GenreFailed, !.hasMore = FALSE,
                            !.loading = FALSE]
  /\ UNCHANGED <<location, genreContext, build, genreRest>>

\* ------------------------------------------------------ specification
Next ==
  \/ InitialNotify /\ UNCHANGED acctVars
  \/ \E u \in accounts : SignIn(u) /\ UNCHANGED acctVars
  \/ SignOut /\ UNCHANGED acctVars
  \/ \E h \in BagToSet(handlers) : GetDocStep(h) /\ UNCHANGED acctVars
  \/ \E h \in BagToSet(handlers) : CommitStep(h) /\ UNCHANGED acctVars
  \/ \E h \in BagToSet(handlers) : FinishMigration(h) /\ UNCHANGED acctVars
  \/ \E h \in BagToSet(handlers) : MigrationFail(h) /\ UNCHANGED acctVars
  \/ \E s \in BagToSet(subs) : DeliverSnapshot(s) /\ UNCHANGED acctVars
  \/ \E s \in BagToSet(subs) : ListenError(s) /\ UNCHANGED acctVars
  \/ \E m \in catalog : addToFavourites(m) /\ UNCHANGED acctVars
  \/ \E id \in MovieIds : removeFromFavourites(id) /\ UNCHANGED acctVars
  \/ dismissSignInPromptForSession /\ UNCHANGED acctVars
  \/ Reload

Spec == Init /\ [][Next]_vars

\* The favourites core with the account page's handlers.
NextAccount ==
  \/ Next
  \/ \E u \in accounts : handleSignIn(u)
  \/ handleSignOut
  \/ handleDeleteAccount
  \/ cancelDeleteAction
  \/ confirmDeleteAction
  \/ GetDocsStep
  \/ DeleteCommitStep
  \/ DeleteDataFail
  \/ DeleteUserStep
  \/ \E code \in ErrorCodes : DeleteUserReject(code)

SpecAccount == InitOne /\ [][NextAccount]_vars

\* The home page.
NextHome ==
  \/ \E q \in Queries : TypeQuery(q)
  \/ handleSearch
  \/ \E s \in BagToSet(searches) : SearchResponse(s)
  \/ \E s \in BagToSet(searches) : SearchFail(s)
  \/ \E f \in BagToSet(fetches) : PopularResponse(f)
  \/ \E f \in BagToSet(fetches) : PopularTimer(f)
  \/ \E f \in BagToSet(fetches) : PopularFail(f)
  \/ handleLoadMore

SpecHome == InitOne /\ [][NextHome]_vars

\* The genre page, opened at one of the locations.
InitGenre(b) ==
  /\ InitState(TRUE)
  /\ \E loc \in Locations : GenreMountedAt(loc, b)
  /\ catalog = [id : {1}, title : {"X"}]
  /\ accounts = {"u1"}
  /\ audit = FALSE

NextGenre ==
  \/ GenresLoaded
  \/ GenresFail
  \/ \E genreId \in Genres : OpenGenre(genreId)
  \/ \E genreId \in Genres : handleGenreToggle(genreId)
  \/ handleLoadMoreGenre
  \/ \E r \in BagToSet(requests), shift \in Shifts : DiscoverResponse(r, shift)
  \/ \E r \in BagToSet(requests) : DiscoverFail(r)

\* GenrePage of src/unnamed/part_003.
SpecGenre == InitGenre(QueryBuild) /\ [][NextGenre]_vars

\* GenrePage of src/src/Pages/GenrePage.jsx.
SpecGenreMerged == InitGenre(MergedBuild) /\ [][NextGenre]_vars

SpecOps == InitOps /\ [][Next]_vars

SpecUsers == InitUsers /\ [][Next]_vars

SpecPrompt == InitPrompt /\ [][Next]_vars

\* Every promise continuation and every listener callback is run in the end.
Fairness ==
  /\ WF_vars(\E h \in BagToSet(handlers) : GetDocStep(h) /\ UNCHANGED acctVars)
  /\ WF_vars(\E h \in BagToSet(handlers) : CommitStep(h) /\ UNCHANGED acctVars)
  /\ WF_vars(\E h \in BagToSet(handlers) : FinishMigration(h) /\ UNCHANGED acctVars)
  /\ WF_vars(\E s \in BagToSet(subs) :
               s.first /\ DeliverSnapshot(s) /\ UNCHANGED acctVars)
  /\ WF_vars(\E s \in BagToSet(subs) : DeliverSnapshot(s) /\ UNCHANGED acctVars)

FairSpec == InitOne /\ [][Next]_vars /\ Fairness

\* ------------------------------------------------------ claims
\* The session as the component knows it.
Anonymous == notified /\ currentUser = Null
Authenticated == currentUser # Null

Count(list, id) == Cardinality({i \in DOMAIN list : list[i].id = id})
Unique(list) == \A i, j \in DOMAIN list : list[i].id = list[j].id => i = j
Range(seq) == {seq[i] : i \in DOMAIN seq}

\* C1. Exclusivity: while Authenticated the in-memory list was taken from the
\* user's remote collection, while Anonymous from localStorage, in every state,
\* the interval between the sign-in notification and the first snapshot
\* included (an empty list while Authenticated shows no source).
Exclusivity ==
  /\ Authenticated => (favourites = <<>> \/ favSource = currentUser)
  /\ Anonymous => favSource = "local"

\* C2. Backing-store duality: while Anonymous no remote subscription is open
\* (the one opened at sign-in was torn down), and while Authenticated at most
\* one is, on the signed-in user's collection.
BackingStoreDuality ==
  /\ Anonymous => BagCardinality(subs) = 0
  /\ Authenticated =>
       /\ BagCardinality(subs) <= 1
       /\ \A s \in BagToSet(subs) : s.uid = currentUser

\* C3. Migration correctness: with local list L and remote collection R at
\* sign-in and nothing else operating meanwhile, the commit leaves the remote
\* collection with exactly the ids of R and L, and the end of the handler
\* leaves localStorage without favourites; a sign-in with no local favourites
\* leaves both stores as they are.
MigrationCorrect ==
  [][/\ \A h \in BagToSet(handlers) :
          /\ (CommitStep(h) /\ h.clean) =>
               IdsIn(remote'[h.uid]) = h.r0 \cup IdsOf(h.localFavs)
          /\ (FinishMigration(h) /\ h.clean) =>
               /\ IdsIn(remote'[h.uid]) = h.r0 \cup IdsOf(h.localFavs)
               /\ localStorage' = NoItem
     /\ \A u \in Users :
          (SignIn(u) /\ ~NeedsMigration(localStorage)) =>
               /\ remote' = remote
               /\ LoadLocal(localStorage') = <<>>]_vars

\* C3 witness: local {1, 2} and remote with one of them at sign-in, the batch
\* committed, nothing else having operated.
MigrationWitness ==
  \E h \in BagToSet(handlers) :
    /\ h.pc = "clear" /\ h.clean
    /\ IdsOf(h.localFavs) = MovieIds
    /\ Cardinality(h.r0) = 1
    /\ IdsIn(remote[h.uid]) = MovieIds

\* C4. Uniqueness: the in-memory list, the localStorage list and every remote
\* collection hold at most one entry per movie id.
UniquePerId ==
  /\ Unique(favourites)
  /\ Unique(LoadLocal(localStorage))
  /\ \A u \in Users : Unique(SnapshotDocs(remote[u]))

\* C4 witness: all three hold both movies.
UniqueWitness ==
  /\ Len(favourites) = 2
  /\ Len(LoadLocal(localStorage)) = 2
  /\ \E u \in Users : Len(SnapshotDocs(remote[u])) = 2

\* C5. Idempotent add: from any state, add(m) twice leaves exactly one entry
\* for m.id in the in-memory list and in localStorage (Anonymous) or in the
\* remote collection (Authenticated), and the second add changes nothing.
IdempotentAdd ==
  \A m \in catalog :
    /\ Anonymous =>
         LET f1 == AnonAddList(favourites, m)
             l1 == AnonAddLocal(favourites, localStorage, m)
             f2 == AnonAddList(f1, m)
             l2 == AnonAddLocal(f1, l1, m)
         IN /\ f2 = f1 /\ l2 = l1
            /\ Count(f2, m.id) = 1
            /\ Count(LoadLocal(l2), m.id) = 1
    /\ Authenticated =>
         LET c1 == SetDoc(remote[currentUser], m)
             c2 == SetDoc(c1, m)
         IN /\ c2 = c1
            /\ Count(SnapshotDocs(c2), m.id) = 1

\* C6. No-op removal: remove(id) of an id that is not in the active store
\* leaves the in-memory list, the localStorage list and the remote collection
\* as they are.
NoOpRemoval ==
  [][\A id \in MovieIds :
       /\ (removeFromFavourites(id) /\ Anonymous
             /\ ~isFavouriteIn(LoadLocal(localStorage), id)) =>
            /\ favourites' = favourites
            /\ LoadLocal(localStorage') = LoadLocal(localStorage)
            /\ remote' = remote
       /\ (removeFromFavourites(id) /\ Authenticated
             /\ ~DocExists(remote[currentUser], id)) =>
            /\ favourites' = favourites
            /\ LoadLocal(localStorage') = LoadLocal(localStorage)
            /\ remote' = remote]_vars

\* An add or a remove by the user.
UserOp ==
  \/ \E m \in catalog : addToFavourites(m)
  \/ \E id \in MovieIds : removeFromFavourites(id)

\* C7. Sign-out restores the local view: the sign-out leaves the in-memory
\* list equal to the localStorage list without touching either store, and
\* while the session stays Anonymous the two stay equal until the next add or
\* remove.
SignOutRestoresLocal ==
  [][/\ SignOut =>
          /\ favourites' = LoadLocal(localStorage')
          /\ localStorage' = localStorage
          /\ remote' = remote
          /\ handlers' = handlers
     /\ (Anonymous /\ Anonymous' /\ ~UserOp
           /\ favourites = LoadLocal(localStorage)) =>
          favourites' = LoadLocal(localStorage')]_vars

\* A sign-in has just found movie m in localStorage: its handler is at the
\* first existence check.
Carrying(m, u) ==
  /\ currentUser = u
  /\ \E h \in BagToSet(handlers) :
       /\ h.uid = u /\ h.pc = "getDoc" /\ h.i = 1 /\ h.clean
       /\ m \in Range(h.localFavs)

\* A failure, a session change or an operation by the user has intervened.
Disturbed(u) ==
  \/ currentUser # u
  \/ favSource = "error"
  \/ \E h \in BagToSet(handlers) : h.pc = "rejected" \/ ~h.clean

\* C8. Sign-in carries anonymous favourites over: once a sign-in has found
\* movie m in localStorage then, unless a failure, a session change or a
\* user operation intervenes, eventually the remote collection holds m,
\* eventually localStorage is cleared, and eventually m is a favourite of the
\* in-memory list as a snapshot of the user's collection delivered it.
SignInCarriesOver ==
  \A m \in Movies : \A u \in Users :
    /\ Carrying(m, u) ~> (DocExists(remote[u], m.id) \/ Disturbed(u))
    /\ Carrying(m, u) ~> (localStorage = NoItem \/ Disturbed(u))
    /\ Carrying(m, u) ~>
         ((isFavouriteIn(favourites, m.id) /\ favSource = u /\ ~isFavoritesLoading)
            \/ Disturbed(u))

\* C8 witness: the movie added while Anonymous is a favourite again through
\* the first snapshot after the migration, with localStorage cleared.
CarriedOverWitness ==
  /\ Authenticated /\ favSource = currentUser /\ ~isFavoritesLoading
  /\ Len(favourites) = 1
  /\ IdsIn(remote[currentUser]) = IdsOf(favourites)
  /\ localStorage = NoItem
  /\ BagCardinality(handlers) = 0
  /\ \A s \in BagToSet(subs) : s.queue = <<>> /\ ~s.first
  /\ BagCardinality(subs) = 1

\* C9. No lost update during migration: when the batch of a migration is
\* committed, every add or remove the user issued on the same collection while
\* the handler was in flight is reflected: a removed id is absent, an added
\* movie is there with the value that was added.
NoLostUpdate ==
  [][\A h \in BagToSet(handlers) :
       CommitStep(h) =>
         \A id \in MovieIds :
           h.expect[id] # NoOp => remote'[h.uid][DocKey(id)] = h.expect[id]]_vars

\* C10. A failed migration leaves localStorage un-cleared: the failing step
\* does not change localStorage, which (nothing else having operated) still
\* holds the list the handler read at sign-in; and a sign-in that finds
\* favourites in localStorage starts a migration of every one of them.
FailedMigrationKeepsLocal ==
  [][/\ \A h \in BagToSet(handlers) :
          MigrationFail(h) =>
            /\ localStorage' = localStorage
            /\ h.clean => localStorage' = Stringify(h.localFavs)
     /\ \A u \in Users :
          (SignIn(u) /\ NeedsMigration(localStorage)) =>
            \E h \in BagToSet(handlers') :
              /\ h.uid = u /\ h.pc = "getDoc" /\ h.i = 1 /\ h.batch = <<>>
              /\ h.localFavs = LoadLocal(localStorage)
              /\ CopiesIn(h, handlers') > CopiesIn(h, handlers)]_vars

\* C10 witness: a handler has been rejected and localStorage still holds
\* both favourites for the next sign-in.
FailedMigrationWitness ==
  /\ \E h \in BagToSet(handlers) : h.pc = "rejected"
  /\ Len(LoadLocal(localStorage)) = 2
  /\ Authenticated

\* C11 as stated. Migration is per item and not transactional across items:
\* when a migration fails after items were set in its batch, some of those
\* items are written to the remote collection.
PartialOnFailure ==
  [][\A h \in BagToSet(handlers) :
       (MigrationFail(h) /\ h.clean /\ h.batch # <<>>) =>
         \E i \in DOMAIN h.batch : DocExists(remote'[h.uid], h.batch[i].id)]_vars

\* C11 as amended. Migration is all-or-nothing across items: a failure of an
\* existence check or of the commit leaves the remote collection as it was at
\* sign-in, none of the local items written, and a commit writes every item
\* of the batch at once.
MigrationAtomic ==
  [][\A h \in BagToSet(handlers) :
       /\ MigrationFail(h) => remote' = remote
       /\ (MigrationFail(h) /\ h.clean) => IdsIn(remote'[h.uid]) = h.r0
       /\ CommitStep(h) =>
            \A i \in DOMAIN h.batch :
              remote'[h.uid][DocKey(h.batch[i].id)] = h.batch[i]]_vars

\* C11 witness: the second existence check of a migration of two items has
\* rejected, the first item was set in the batch, and the collection holds
\* neither.
AtomicFailureWitness ==
  /\ Authenticated
  /\ \E h \in BagToSet(handlers) :
       /\ h.pc = "rejected" /\ h.i = 2 /\ h.uid = currentUser
       /\ IdsIn(remote[h.uid]) = {}
  /\ Len(LoadLocal(localStorage)) = 2
  /\ BagCardinality(handlers) = 1 /\ BagCardinality(subs) = 0

\* C12. No backing-store failure escapes: every failure of a remote call is
\* caught where it is made, so no sign-in handler ever ends as a rejected
\* promise that nothing catches.
NoUnhandledError ==
  \A h \in BagToSet(handlers) : h.pc # "rejected"

\* A migration of the signed-in user's favourites has not run to its end.
MigrationInFlight ==
  \E h \in BagToSet(handlers) : h.uid = currentUser /\ InFlight(h)

\* C13. Ready only after migration: while Authenticated the loading flag is
\* never false (the UI is never told the session is ready) while a migration
\* for the user is still in flight, and a subscription on the user's
\* collection is open only when localStorage has been cleared of favourites.
ReadyAfterMigration ==
  Authenticated =>
    /\ MigrationInFlight => isFavoritesLoading
    /\ (\E s \in BagToSet(subs) : s.uid = currentUser) =>
         ~NeedsMigration(localStorage)

\* C14. Snapshot overwrite: the delivery of a snapshot leaves the in-memory
\* list equal to the snapshot's documents, so an entry of the previous list
\* survives only if the snapshot has it.
SnapshotOverwrites ==
  [][\A s \in BagToSet(subs) :
       DeliverSnapshot(s) =>
         /\ favourites' = Head(s.queue)
         /\ \A i \in DOMAIN favourites :
              favourites[i] \in Range(favourites') =>
                favourites[i] \in Range(Head(s.queue))]_vars

\* C14 witness: an empty snapshot has replaced the list of the favourites
\* that localStorage still holds.
SnapshotOverwriteWitness ==
  /\ favSource \in Users
  /\ favourites = <<>>
  /\ NeedsMigration(localStorage)

\* C15. Prompt single-shot: dismissing the prompt sets the session's flag and
\* hides it; once the flag is set it stays set and no step (an Anonymous add,
\* a sign-in or sign-out, a page reload) leaves the prompt shown.
PromptSingleShot ==
  [][/\ dismissSignInPromptForSession => (sessionFlag' /\ ~showSignInPrompt')
     /\ sessionFlag => (sessionFlag' /\ ~showSignInPrompt')
     /\ sessionFlag => promptDismissed]_vars

\* C15 witness: the flag is set, the page is Anonymous and a favourite is in
\* the list and in localStorage, the prompt hidden.
SingleShotWitness ==
  /\ sessionFlag /\ Anonymous /\ ~showSignInPrompt
  /\ Len(favourites) = 1
  /\ LoadLocal(localStorage) = favourites

\* C16 as stated. Sign-in nudge: after every Anonymous add, if the dismissed
\* flag is not set, the prompt is shown (whatever add is called next, the
\* prompt is shown after it).
SignInNudge ==
  \A m \in catalog :
    (Anonymous /\ ~promptDismissed) =>
      AnonAddPrompt(favourites, showSignInPrompt, promptDismissed, m)

\* C16 as amended. After every Anonymous add of a movie that is not in the
\* in-memory list, if the dismissed flag is not set, the prompt is shown; the
\* add of a movie that is in the list leaves the prompt as it is.
NudgeOnNewAdd ==
  [][\A m \in catalog :
       /\ (addToFavourites(m) /\ Anonymous /\ ~promptDismissed
             /\ ~isFavouriteIn(favourites, m.id)) => showSignInPrompt'
       /\ (addToFavourites(m) /\ Anonymous /\ isFavouriteIn(favourites, m.id)) =>
            showSignInPrompt' = showSignInPrompt]_vars

\* C16 witness: the prompt is shown after an Anonymous add, the flag not set.
NudgeWitness ==
  /\ Anonymous /\ showSignInPrompt /\ ~promptDismissed /\ ~sessionFlag
  /\ Len(favourites) = 1

StaleCredentialDelete ==
  [][DeleteUserReject(RecentLoginCode) =>
       /\ authError' = ReAuthenticate /\ authError' # GenericFailure
       /\ feedbackMessage' = NoMessage
       /\ currentUser' = currentUser /\ authUser' = authUser
       /\ identities' = identities /\ del.uid \in identities'
       /\ del' = Idle]_vars

\* C18 witness: the re-authenticate message is shown to the user, still
\* signed in, whose collection the attempt has emptied.
StaleCredentialWitness ==
  /\ authError = ReAuthenticate /\ feedbackMessage = NoMessage
  /\ Authenticated /\ authUser = currentUser /\ currentUser \in identities
  /\ del = Idle /\ ~showDeleteConfirm

\* C19. Sign-out during an in-flight migration: once the session is
\* Anonymous, the rest of a migration started by the preceding sign-in does
\* not clear localStorage and does not open a remote subscription.
SignOutStopsMigration ==
  [][\A h \in BagToSet(handlers) :
       (FinishMigration(h) /\ Anonymous) =>
         /\ localStorage' = localStorage
         /\ subs' = subs]_vars

\* C20. No cross-user list: while Authenticated as u, the in-memory list is
\* changed by a snapshot or a listen error only of a subscription on u's own
\* collection, never by the subscription of a user who signed out before.
NoCrossUserList ==
  [][\A s \in BagToSet(subs) :
       ((DeliverSnapshot(s) \/ ListenError(s)) /\ Authenticated) =>
         s.uid = currentUser]_vars

\* C21. Anonymous persistence: while the session is Anonymous (the initial
\* load done), localStorage holds exactly the in-memory favourites list, so
\* that a page reload shows the same favourites.
AnonymousPersistence ==
  Anonymous => LoadLocal(localStorage) = favourites

\* C22. Idempotent migration retry: the commit of a migration writes only
\* under ids that are absent from the remote collection, so every document
\* that is there keeps its value (and a second run over the same local list
\* changes nothing).
MigrationKeepsRemote ==
  [][\A h \in BagToSet(handlers) :
       CommitStep(h) =>
         \A id \in MovieIds :
           DocExists(remote[h.uid], id) =>
             remote'[h.uid][DocKey(id)] = remote[h.uid][DocKey(id)]]_vars

\* C23. Single-store writes: an add or remove while Authenticated leaves the
\* in-memory list and localStorage as they are, and one with no user signed
\* in leaves every remote collection as it is.
SingleStoreWrites ==
  [][(UserOp /\ UNCHANGED acctVars) =>
       /\ Authenticated =>
            (favourites' = favourites /\ localStorage' = localStorage)
       /\ ~Authenticated => (remote' = remote /\ subs' = subs)]_vars

\* C23 witness: the add of the signed-in user is in the remote collection and
\* in a snapshot not yet delivered, the list and localStorage without it.
SingleStoreWitness ==
  /\ Authenticated /\ favourites = <<>> /\ localStorage = NoItem
  /\ IdsIn(remote[currentUser]) # {}
  /\ BagCardinality(handlers) = 0
  /\ \E s \in BagToSet(subs) :
       s.uid = currentUser /\ ~s.first /\ s.queue = <<SnapshotDocs(remote[currentUser])>>

LoadingEnds ==
  (notified /\ isFavoritesLoading) ~> (~isFavoritesLoading \/ ~notified)

\* C26. Prompt visibility: the prompt is shown only while no user is signed
\* in and the session's dismissed flag is unset; every auth-state change hides
\* it and an add while Authenticated does not show it.
PromptVisibility ==
  [][/\ showSignInPrompt' => (currentUser' = Null /\ ~promptDismissed' /\ ~sessionFlag')
     /\ currentUser' # currentUser => ~showSignInPrompt'
     /\ (InitialNotify \/ SignOut \/ \E u \in Users : SignIn(u)) => ~showSignInPrompt'
     /\ (UserOp /\ Authenticated) => showSignInPrompt' = showSignInPrompt]_vars

\* C26 witness: the prompt is shown, the auth listener notified, nobody
\* signed in though somebody was before, the flag unset.
PromptVisibleWitness ==
  /\ showSignInPrompt /\ Anonymous /\ ~sessionFlag
  /\ \E u \in Users : IdsIn(remote[u]) # {}

\* C27: on the home page search results are displayed only in search mode:
\* whenever the page is in popular mode and not loading, every displayed
\* movie is one of the popular listing, also when a search response arrives
\* after an empty query has returned the page to popular mode.
SearchOnlyInSearchMode ==
  (~home.isSearching /\ ~home.loading) =>
    \A i \in DOMAIN home.displayedMovies :
      home.displayedMovies[i] \in Range(Popular)

IsPrefix(s, list) == Len(s) <= Len(list) /\ s = SubSeq(list, 1, Len(s))

\* C28: Load More on the home page is pure accumulation: in popular mode,
\* once loading has ended, the displayed list is a prefix of the fetched
\* popular list, and a Load More click extends it by
\* min(21, fetched movies not yet displayed), keeping what was displayed.
LoadMoreAccumulates ==
  [][/\ (~home.isSearching' /\ ~home.loading') =>
          IsPrefix(home.displayedMovies', home.allPopularMovies')
     /\ handleLoadMore =>
          /\ IsPrefix(home.displayedMovies, home.displayedMovies')
          /\ Len(home.displayedMovies') = Len(home.displayedMovies) +
               Min(MOVIES_TO_ADD_ON_LOAD_MORE,
                   Len(home.allPopularMovies) - Len(home.displayedMovies))]_vars

\* C29: Load More on the genre page accumulates: the click advances the
\* current page number by one, the number goes down again only when the URL
\* changes, and the response to a request for a later page leaves every
\* displayed movie in place, followed by the movies of that page not yet
\* displayed, at most 500 in all.
GenreLoadMoreAccumulates ==
  [][/\ handleLoadMoreGenre => genre.currentPage' = genre.currentPage + 1
     /\ genre.currentPage' < genre.currentPage => location' # location
     /\ \A r \in BagToSet(requests), shift \in Shifts :
          (DiscoverResponse(r, shift) /\ r.currentPage > 1) =>
            genre.displayedMovies' =
              Slice(genre.displayedMovies \o
                      filteredNewMovies(genre.displayedMovies,
                        getMoviesByGenres(r.selectedGenreIds, r.currentPage,
                                          shift).results),
                    MAX_GENRE_MOVIES_TO_FETCH)]_vars

\* C30: a toggle on the genre page flips the membership of its genre in the
\* selected set and of no other; toggling off the only selected genre leaves
\* the selected set and the displayed list empty and issues no request.
GenreToggleFlips ==
  [][\A genreId \in Genres :
       handleGenreToggle(genreId) =>
         LET before == Range(genre.selectedGenreIds)
             after == Range(genre.selectedGenreIds')
         IN /\ after = (before \ {genreId}) \cup ({genreId} \ before)
            /\ before = {genreId} =>
                 /\ genre.selectedGenreIds' = <<>>
                 /\ genre.displayedMovies' = <<>>
                 /\ requests' = requests]_vars


====
